---- MODULE Spec2Model ----
(***************************************************************************)
(* arxiv-assistant: the research pipeline (src/src/agents.py,              *)
(* arxiv_research_tool) and the conversation graph (src/src/graph.py).     *)
(*                                                                         *)
(* Spec      : one invocation of arxiv_research_tool.  The three thread    *)
(*             pools are modelled future by future: a worker starts a      *)
(*             queued future, finishes it with the outcome of the external *)
(*             call, and the main thread consumes finished futures in the  *)
(*             order as_completed yields them (any order).                 *)
(* GraphSpec : one session of the compiled graph: user turns, the chatbot  *)
(*             node with its conditional edge, the research_pool node.     *)
(***************************************************************************)
EXTENDS Integers, Sequences, FiniteSets, TLC

\* ---------------------------------------------------------------- bounds
MaxTopics == 2        \* longest research_topics.topics handed to the tool
MaxPapers == 2        \* most papers one retrieval returns
MaxTotalPapers == 3   \* most papers retrieved over one invocation
MaxScore == 1         \* evaluation scores are 0..MaxScore (a grid on [0,1])
MaxTurns == 2         \* user turns in one session
MaxCalls == 2         \* most tool calls one chat message carries
MaxMessages == 6      \* longest conversation history explored
MaxPoolTopics == 9    \* most topics of an invocation when only task counts are kept
MaxPoolTasks == 10    \* most papers of an invocation when only task counts are kept
CacheSlots == 2       \* entries the embedding cache holds (maxsize, scaled down from 128)
MaxKeys == 3          \* distinct (text, model) pairs looked up
CacheWorkers == 2     \* evaluation workers looking embeddings up at the same time
MaxFetches == 4       \* most embedding API calls made in one run
MaxScale == 2         \* scale ends are integers of -MaxScale..MaxScale
MaxDen == 2           \* values to rescale are fractions with denominator 1..MaxDen

\* ------------------------------------------------------ program constants
TranslateWorkers == 4     \* ThreadPoolExecutor(max_workers=4)
FetchWorkersCap == 8      \* min(8, len(research_topics.topics))
EvalWorkers == 8          \* ThreadPoolExecutor(max_workers=8)
RecursionLimit == 25      \* graph.stream(inputs, config) with no recursion_limit: the default
MaxResults == 5           \* retrieve_arxiv_papers(topic, max_results=5)

\* Topic strings: what the model may extract and what the translator may answer.
Strings == {"qa", "qb"}
Scores == 0..MaxScore

Min(a, b) == IF a <= b THEN a ELSE b
Range(s) == {s[i] : i \in DOMAIN s}

RECURSIVE SeqsUpTo(_, _)
SeqsUpTo(S, n) ==
    IF n = 0 THEN {<<>>}
    ELSE LET shorter == SeqsUpTo(S, n - 1)
         IN  shorter \cup {Append(s, x) : s \in shorter, x \in S}

VARIABLES
    \* ---- pipeline (arxiv_research_tool)
    pc,                   \* where the main thread of the invocation is
    result,               \* "none", "returned" or the exception raised
    topics,               \* research_topics.topics (the input, rewritten at line 120)
    tr_futures,           \* future_to_input: future i translates text topics[i]
    tr_seen,              \* futures as_completed has yielded (stage 1)
    translated_topics,
    fetch_futures,        \* future_to_topic: future j retrieves topics[j]
    fetch_seen,
    raw_papers_per_topic, \* dict, as a sequence of [topic, papers] in insertion order
    tasks,                \* the evaluation futures, in submission order
    eval_seen,
    evaluated,
    ctx_papers,           \* ctx['papers'], as a function topic -> sequence
    translation_failed,   \* history: some translate_sync call of the invocation raised
    \* ---- conversation graph (build_research_graph) and its session
    messages,             \* the checkpointed MessagesState of the thread
    node,                 \* the node to run next: "chatbot", "research_pool", "end"
    walk,                 \* "idle", "running", "ended" or "aborted" (exception left the walk)
    exc,                  \* the exception that left the last walk, or "none"
    next_id,              \* source of fresh tool-call ids
    turns,                \* graph.stream calls made so far
    \* ---- session loop (interact_with_graph)
    loop,                 \* where the loop is: "prompt", "classify", a stream_graph
                          \* call site, "exited" (break) or "crashed" (exception left it)
    user_input,           \* what session.prompt gave this turn
    intent,               \* chat_intent of this turn, "none" before it is classified
    called,               \* the stream_graph call of this call site has been made
    turn_calls,           \* graph.stream calls made in this turn
    \* ---- the three worker pools of one invocation, tasks counted
    pool_stage,           \* "translate", "fetch", "evaluate", "returned", "raised"
    pool_n,               \* N, the number of topics
    pool_queued,          \* tasks of the stage waiting for a worker
    pool_running,         \* tasks of the stage a worker is running
    pool_done,            \* tasks of the stage that returned or raised
    pool_failed,          \* a task of the stage raised
    \* ---- the embedding cache (lru_cache around get_embedding)
    cache,                \* cached keys, least recently used first
    lookup,               \* per worker: the key whose API call it is in, 0 if none
    fetches,              \* per key: embedding API calls made for it
    raced,                \* keys a worker missed while another was fetching them
    evicted,              \* keys the cache has dropped
    fetch_failed,         \* keys for which an API call raised
    \* ---- from_scale_to_scale and its round trip
    rs_value,             \* value, an exact fraction <<numerator, denominator>>
    rs_l,                 \* l_scale
    rs_r,                 \* r_scale
    rs_out,               \* from_scale_to_scale(value, l_scale, r_scale)
    rs_back,              \* from_scale_to_scale(rs_out, r_scale, l_scale)
    rs_scaled,            \* get_scaled_similarity with rs_value as the cosine similarity
    rs_eval,              \* the PaperEvaluation explain_paper_relevance built, or its error
    \* ---- prepare_translation_input
    ti_text,              \* text
    ti_detected,          \* how detect(text) ends: a language code or its exception
    ti_pref,              \* preferred_lang
    ti_force,             \* force_direction
    ti_out,               \* the TranslationInput returned, or the error raised
    \* ---- one walk of the compiled graph, node executions counted
    w_node,               \* node to run next: "chatbot", "research_pool", "end", "error"
    w_prev,               \* node that ran last in this walk, "start" before the first
    w_steps,              \* node executions of this walk so far
    w_last,               \* the last message of the state
    w_exc                 \* the exception that ended the walk, "none" if none

pvars == <<pc, result, topics, tr_futures, tr_seen, translated_topics,
           fetch_futures, fetch_seen, raw_papers_per_topic, tasks, eval_seen,
           evaluated, ctx_papers, translation_failed>>

gvars == <<messages, node, walk, exc, next_id, turns>>

svars == <<loop, user_input, intent, called, turn_calls>>

wvars == <<pool_stage, pool_n, pool_queued, pool_running, pool_done, pool_failed>>

cvars == <<cache, lookup, fetches, raced, evicted, fetch_failed>>

rvars == <<rs_value, rs_l, rs_r, rs_out, rs_back, rs_scaled, rs_eval>>

tvars == <<ti_text, ti_detected, ti_pref, ti_force, ti_out>>

kvars == <<w_node, w_prev, w_steps, w_last, w_exc>>

avars == <<wvars, cvars, rvars, tvars, kvars>>

vars == <<pvars, gvars, svars, avars>>

\* A future: st is "queued", "running", "ok" or "failed"; val is its result.
Done(f) == f.st \in {"ok", "failed"}
NumRunning(fs) == Cardinality({i \in DOMAIN fs : fs[i].st = "running"})
FirstQueued(fs) ==
    LET q == {i \in DOMAIN fs : fs[i].st = "queued"}
    IN  CHOOSE i \in q : \A k \in q : i <= k

\* ------------------------------------------------------------- dict helpers
DictKeys(d) == {d[i].topic : i \in DOMAIN d}
\* d[k] = v : an existing key keeps its position, a new key goes last
DictSet(d, k, v) ==
    IF k \in DictKeys(d)
    THEN [i \in DOMAIN d |-> IF d[i].topic = k THEN [topic |-> k, papers |-> v] ELSE d[i]]
    ELSE Append(d, [topic |-> k, papers |-> v])

RECURSIVE Flatten(_)
Flatten(ss) == IF ss = <<>> THEN <<>> ELSE Head(ss) \o Flatten(Tail(ss))

\* ------------------------------------------------------------ pure helpers
\* Paper(topic=topic, ..., url=r.entry_id, ...) in retrieve_arxiv_papers
MakePaper(topic, url) == [topic |-> topic, url |-> url]

\* EvaluatedPaper(**paper.model_dump(), evaluation=eval_model)
MakeEvaluated(paper, score) == [topic |-> paper.topic, url |-> paper.url, score |-> score]

\* mutant: the per-topic sort is left out
NoSort(s) == s

\* list.sort(key=score, reverse=True): stable, equal scores keep their order
RECURSIVE InsertDesc(_, _)
InsertDesc(s, e) ==
    IF s = <<>> THEN <<e>>
    ELSE IF Head(s).score >= e.score THEN <<Head(s)>> \o InsertDesc(Tail(s), e)
    ELSE <<e>> \o s

RECURSIVE SortByScoreDesc(_)
\* papers.sort(key=lambda p: p.evaluation.score, reverse=True)   (line 165)
SortByScoreDesc(s) ==
    IF s = <<>> THEN <<>>
    ELSE InsertDesc(SortByScoreDesc(SubSeq(s, 1, Len(s) - 1)), s[Len(s)])

\* mutant: the group key is the loop variable `topic` left over from line 146
PapersKeyLeaked(ep) == topics[Len(topics)]

\* the key of ctx['papers'].setdefault(ep.topic, [])
PapersKey(ep) == ep.topic

SelectKey(evs, t) == SelectSeq(evs, LAMBDA e : PapersKey(e) = t)

\* lines 159-165: group in the order of `evaluated`, then sort each group
GroupAndSort(evs) ==
    [t \in {PapersKey(e) : e \in Range(evs)} |-> SortByScoreDesc(SelectKey(evs, t))]

EmptyDict == [t \in {} |-> <<>>]

RECURSIVE SumLen(_, _)
SumLen(fs, n) ==
    IF n = 0 THEN 0
    ELSE (IF fs[n].st = "ok" THEN Len(fs[n].val) ELSE 0) + SumLen(fs, n - 1)
TotalRetrieved == SumLen(fetch_futures, Len(fetch_futures))

\* ------------------------------------------------------------------- Init
PipeInit ==
    /\ topics \in SeqsUpTo(Strings, MaxTopics)
    /\ tr_futures = [i \in 1..Len(topics) |-> [st |-> "queued", text |-> topics[i], val |-> ""]]
    /\ tr_seen = {}
    /\ translated_topics = <<>>
    /\ pc = "translate"
    /\ result = "none"
    /\ fetch_futures = <<>>
    /\ fetch_seen = {}
    /\ raw_papers_per_topic = <<>>
    /\ tasks = <<>>
    /\ eval_seen = {}
    /\ evaluated = <<>>
    /\ ctx_papers = EmptyDict
    /\ translation_failed = FALSE

GraphIdle ==
    /\ messages = <<>>
    /\ node = "end"
    /\ walk = "idle"
    /\ exc = "none"
    /\ next_id = 1
    /\ turns = 0

\* interact_with_graph before its first prompt
SessionInit ==
    /\ loop = "prompt"
    /\ user_input = "none"
    /\ intent = "none"
    /\ called = FALSE
    /\ turn_calls = 0

PoolIdle ==
    /\ pool_stage = "idle"
    /\ pool_n = 0
    /\ pool_queued = 0
    /\ pool_running = 0
    /\ pool_done = 0
    /\ pool_failed = FALSE

Keys == 1..MaxKeys

Workers == 1..CacheWorkers

\* the cache is empty when the module is imported
CacheInit ==
    /\ cache = <<>>
    /\ lookup = [w \in Workers |-> 0]
    /\ fetches = [k \in Keys |-> 0]
    /\ raced = {}
    /\ evicted = {}
    /\ fetch_failed = {}

\* no call made: the outcome of a call is [st, val] with st "none" before the
\* call, "ok" with the returned fraction, "error" (ValueError) with no value
NoCall == [st |-> "none", val |-> <<>>]

RescaleIdle ==
    /\ rs_value = <<0, 1>>
    /\ rs_l = <<>>
    /\ rs_r = <<>>
    /\ rs_out = NoCall
    /\ rs_back = NoCall
    /\ rs_scaled = NoCall
    /\ rs_eval = NoCall

NoInput == [st |-> "none", text |-> "", preferred_lang |-> "", force_direction |-> ""]

PrepareIdle ==
    /\ ti_text = ""
    /\ ti_detected = "en"
    /\ ti_pref = "none"
    /\ ti_force = "auto"
    /\ ti_out = NoInput

NoMessage == [type |-> "none", tool_calls |-> <<>>, tool_call_id |-> 0, content |-> ""]

WalkIdle ==
    /\ w_node = "idle"
    /\ w_prev = "start"
    /\ w_steps = 0
    /\ w_last = NoMessage
    /\ w_exc = "none"

AuxIdle == PoolIdle /\ CacheInit /\ RescaleIdle /\ PrepareIdle /\ WalkIdle

Init == PipeInit /\ GraphIdle /\ SessionInit /\ AuxIdle

\* mutant: the coordinator goes on as soon as one result has been consumed
BatchDoneEarly(fs, seen) == seen # {} \/ fs = <<>>

\* the `for future in as_completed(...)` loop has consumed every future of the
\* batch and the with-block of the executor can exit
BatchDone(fs, seen) == seen = DOMAIN fs

\* mutant: every pool is as wide as the evaluation pool
PoolWidthAllEight(stage, n) == EvalWorkers

\* max_workers of the executor of each stage (lines 107, 124, 145)
PoolWidth(stage, n) ==
    CASE stage = "translate" -> TranslateWorkers
      [] stage = "fetch" -> Min(FetchWorkersCap, n)
      [] stage = "evaluate" -> EvalWorkers

\* --------------------------------------------------- stage 1: translation
\* a worker of the pool of 4 takes the next queued translate_sync call
TranslateStart ==
    /\ \E i \in DOMAIN tr_futures : tr_futures[i].st = "queued"
    /\ NumRunning(tr_futures) < PoolWidth("translate", Len(tr_futures))
    /\ tr_futures' = [tr_futures EXCEPT ![FirstQueued(tr_futures)].st = "running"]
    /\ UNCHANGED <<pc, result, topics, tr_seen, translated_topics,
                   fetch_futures, fetch_seen, raw_papers_per_topic, tasks,
                   eval_seen, evaluated, ctx_papers, translation_failed, gvars, svars, avars>>

\* translate_sync returns a TranslationResult (any translation) or raises
TranslateFinish(i) ==
    /\ tr_futures[i].st = "running"
    /\ \/ \E t \in Strings :
            /\ tr_futures' = [tr_futures EXCEPT ![i].st = "ok", ![i].val = t]
            /\ UNCHANGED translation_failed
       \/ /\ tr_futures' = [tr_futures EXCEPT ![i].st = "failed"]
          /\ translation_failed' = TRUE
    /\ UNCHANGED <<pc, result, topics, tr_seen, translated_topics,
                   fetch_futures, fetch_seen, raw_papers_per_topic, tasks,
                   eval_seen, evaluated, ctx_papers, gvars, svars, avars>>

\* mutant: a failed translation is skipped, as a failed evaluation is
OnTranslationFailureSkip(i) ==
    /\ pc' = pc
    /\ tr_seen' = tr_seen \cup {i}
    /\ UNCHANGED translated_topics

\* except Exception as e: raise TranslationError(...) from e   (lines 116-118)
OnTranslationFailure(i) ==
    /\ pc' = "tr_raise"
    /\ tr_seen' = tr_seen \cup {i}
    /\ UNCHANGED translated_topics

\* mutant: a translation already in the list is not added again
CollectedOnce(acc, translation) ==
    IF translation \in Range(acc) THEN acc ELSE Append(acc, translation)

\* translated_topics.append(translation_output.translation)   (line 114)
Collected(acc, translation) == Append(acc, translation)

\* one iteration of `for future in as_completed(future_to_input)`
TranslateResult(i) ==
    /\ pc = "translate"
    /\ i \notin tr_seen
    /\ Done(tr_futures[i])
    /\ IF tr_futures[i].st = "ok"
       THEN /\ translated_topics' = Collected(translated_topics, tr_futures[i].val)
            /\ tr_seen' = tr_seen \cup {i}
            /\ pc' = pc
       ELSE OnTranslationFailure(i)
    /\ UNCHANGED <<result, topics, tr_futures,
                   fetch_futures, fetch_seen, raw_papers_per_topic, tasks,
                   eval_seen, evaluated, ctx_papers, translation_failed, gvars, svars, avars>>

\* mutant: the topics collected so far are written back before the error
\* leaves the tool
TranslationErrorRaisedAfterWrite ==
    /\ pc = "tr_raise"
    /\ \A i \in DOMAIN tr_futures : Done(tr_futures[i])
    /\ pc' = "raised"
    /\ result' = "TranslationError"
    /\ topics' = translated_topics
    /\ UNCHANGED <<tr_futures, tr_seen, translated_topics,
                   fetch_futures, fetch_seen, raw_papers_per_topic, tasks,
                   eval_seen, evaluated, ctx_papers, translation_failed, gvars, svars, avars>>

\* the with-block's exit waits for every submitted future, then the
\* TranslationError leaves arxiv_research_tool
TranslationErrorRaised ==
    /\ pc = "tr_raise"
    /\ \A i \in DOMAIN tr_futures : Done(tr_futures[i])
    /\ pc' = "raised"
    /\ result' = "TranslationError"
    /\ UNCHANGED <<topics, tr_futures, tr_seen, translated_topics,
                   fetch_futures, fetch_seen, raw_papers_per_topic, tasks,
                   eval_seen, evaluated, ctx_papers, translation_failed, gvars, svars, avars>>

\* ----------------------------------------------------- stage 2: retrieval
\* mutant: the fetch futures are submitted for the untranslated texts
FetchTopicsUntranslated == [i \in DOMAIN tr_futures |-> tr_futures[i].text]

\* the topics the fetch futures are submitted for (line 127)
FetchTopics == translated_topics

\* lines 120-128: research_topics.topics = translated_topics, then the pool
\* ThreadPoolExecutor(max_workers=min(8, len(topics))) rejects max_workers=0.
\* The translation executor is shut down and future_to_input is not read
\* again, so only the status of its futures is kept in the state.
SubmitFetch ==
    /\ pc = "translate"
    /\ BatchDone(tr_futures, tr_seen)
    /\ topics' = translated_topics
    /\ tr_futures' = [i \in DOMAIN tr_futures |->
                         [st |-> tr_futures[i].st, text |-> "", val |-> ""]]
    /\ tr_seen' = tr_seen
    /\ IF PoolWidth("fetch", Len(translated_topics)) <= 0
       THEN /\ pc' = "raised"
            /\ result' = "ValueError"
            /\ UNCHANGED fetch_futures
       ELSE /\ pc' = "fetch"
            /\ result' = result
            /\ fetch_futures' = [j \in 1..Len(FetchTopics) |->
                                    [st |-> "queued", topic |-> FetchTopics[j], val |-> <<>>]]
    /\ UNCHANGED <<translated_topics,
                   fetch_seen, raw_papers_per_topic, tasks,
                   eval_seen, evaluated, ctx_papers, translation_failed, gvars, svars, avars>>

FetchStart ==
    /\ \E j \in DOMAIN fetch_futures : fetch_futures[j].st = "queued"
    /\ NumRunning(fetch_futures) < PoolWidth("fetch", Len(topics))
    /\ fetch_futures' = [fetch_futures EXCEPT ![FirstQueued(fetch_futures)].st = "running"]
    /\ UNCHANGED <<pc, result, topics, tr_futures, tr_seen, translated_topics,
                   fetch_seen, raw_papers_per_topic, tasks,
                   eval_seen, evaluated, ctx_papers, translation_failed, gvars, svars, avars>>

\* retrieve_arxiv_papers(topic): the index answers n papers, or the call raises
FetchFinish(j) ==
    /\ fetch_futures[j].st = "running"
    /\ \/ \E n \in 0..MaxPapers :
            /\ TotalRetrieved + n <= MaxTotalPapers
            /\ fetch_futures' = [fetch_futures EXCEPT
                   ![j].st = "ok",
                   ![j].val = [k \in 1..n |->
                                  MakePaper(fetch_futures[j].topic, 10 * j + k)]]
       \/ fetch_futures' = [fetch_futures EXCEPT ![j].st = "failed"]
    /\ UNCHANGED <<pc, result, topics, tr_futures, tr_seen, translated_topics,
                   fetch_seen, raw_papers_per_topic, tasks,
                   eval_seen, evaluated, ctx_papers, translation_failed, gvars, svars, avars>>

\* one iteration of `for future in as_completed(future_to_topic)` (lines 129-134)
FetchResult(j) ==
    /\ pc = "fetch"
    /\ j \in DOMAIN fetch_futures
    /\ j \notin fetch_seen
    /\ Done(fetch_futures[j])
    /\ raw_papers_per_topic' =
           DictSet(raw_papers_per_topic, fetch_futures[j].topic,
                   IF fetch_futures[j].st = "ok" THEN fetch_futures[j].val ELSE <<>>)
    /\ fetch_seen' = fetch_seen \cup {j}
    /\ UNCHANGED <<pc, result, topics, tr_futures, tr_seen, translated_topics,
                   fetch_futures, tasks, eval_seen, evaluated, ctx_papers, translation_failed, gvars, svars, avars>>

\* ---------------------------------------------------- stage 3: evaluation
\* lines 144-148: one future per paper of raw_papers_per_topic, in dict order
SubmitEval ==
    /\ pc = "fetch"
    /\ BatchDone(fetch_futures, fetch_seen)
    /\ tasks' = LET ps == Flatten([i \in DOMAIN raw_papers_per_topic |->
                                      raw_papers_per_topic[i].papers])
                IN  [k \in DOMAIN ps |-> [st |-> "queued", paper |-> ps[k], val |-> 0]]
    /\ pc' = "evaluate"
    /\ UNCHANGED <<result, topics, tr_futures, tr_seen, translated_topics,
                   fetch_futures, fetch_seen, raw_papers_per_topic,
                   eval_seen, evaluated, ctx_papers, translation_failed, gvars, svars, avars>>

EvalStart ==
    /\ \E k \in DOMAIN tasks : tasks[k].st = "queued"
    /\ NumRunning(tasks) < PoolWidth("evaluate", Len(topics))
    /\ tasks' = [tasks EXCEPT ![FirstQueued(tasks)].st = "running"]
    /\ UNCHANGED <<pc, result, topics, tr_futures, tr_seen, translated_topics,
                   fetch_futures, fetch_seen, raw_papers_per_topic,
                   eval_seen, evaluated, ctx_papers, translation_failed, gvars, svars, avars>>

\* evaluate((topic, paper)): explain_paper_relevance gives a score, or raises
EvalFinish(k) ==
    /\ tasks[k].st = "running"
    /\ \/ \E sc \in Scores : tasks' = [tasks EXCEPT ![k].st = "ok", ![k].val = sc]
       \/ tasks' = [tasks EXCEPT ![k].st = "failed"]
    /\ UNCHANGED <<pc, result, topics, tr_futures, tr_seen, translated_topics,
                   fetch_futures, fetch_seen, raw_papers_per_topic,
                   eval_seen, evaluated, ctx_papers, translation_failed, gvars, svars, avars>>

\* one iteration of `for task in as_completed(tasks)` (lines 150-156)
EvalResult(k) ==
    /\ pc = "evaluate"
    /\ k \in DOMAIN tasks
    /\ k \notin eval_seen
    /\ Done(tasks[k])
    /\ evaluated' = IF tasks[k].st = "ok"
                    THEN Append(evaluated, MakeEvaluated(tasks[k].paper, tasks[k].val))
                    ELSE evaluated
    /\ eval_seen' = eval_seen \cup {k}
    /\ UNCHANGED <<pc, result, topics, tr_futures, tr_seen, translated_topics,
                   fetch_futures, fetch_seen, raw_papers_per_topic, tasks,
                   ctx_papers, translation_failed, gvars, svars, avars>>

\* lines 158-167: group, sort, return ctx
Aggregate ==
    /\ pc = "evaluate"
    /\ BatchDone(tasks, eval_seen)
    /\ ctx_papers' = GroupAndSort(evaluated)
    /\ pc' = "returned"
    /\ result' = "returned"
    /\ UNCHANGED <<topics, tr_futures, tr_seen, translated_topics,
                   fetch_futures, fetch_seen, raw_papers_per_topic, tasks,
                   eval_seen, evaluated, translation_failed, gvars, svars, avars>>

Next ==
    \/ TranslateStart
    \/ \E i \in DOMAIN tr_futures : TranslateFinish(i)
    \/ \E i \in DOMAIN tr_futures : TranslateResult(i)
    \/ TranslationErrorRaised
    \/ SubmitFetch
    \/ FetchStart
    \/ \E j \in DOMAIN fetch_futures : FetchFinish(j)
    \/ \E j \in DOMAIN fetch_futures : FetchResult(j)
    \/ SubmitEval
    \/ EvalStart
    \/ \E k \in DOMAIN tasks : EvalFinish(k)
    \/ \E k \in DOMAIN tasks : EvalResult(k)
    \/ Aggregate

Spec == Init /\ [][Next]_vars

\* ====================================================== conversation graph
\* research_tools_by_name (agents.py line 170): the one registered tool
RegisteredTools == {"arxiv_research_tool"}
\* the names a chat message may ask for (the model may name a tool that is not there)
ToolNames == RegisteredTools \cup {"web_search"}
\* how tool.invoke(args) ends for arxiv_research_tool: the results of Spec
ToolOutcomes == {"returned", "TranslationError", "ValueError"}

HumanMessage == [type |-> "human", tool_calls |-> <<>>, tool_call_id |-> 0, content |-> "user"]
AIMessage(calls) == [type |-> "ai", tool_calls |-> calls, tool_call_id |-> 0, content |-> "ai"]
\* ToolMessage(content=observation, tool_call_id=tool_call["id"])
ToolMessage(call, observation) ==
    [type |-> "tool", tool_calls |-> <<>>, tool_call_id |-> call.id, content |-> observation]

Last(s) == s[Len(s)]

\* mutant: the state keeps only the node's update (no reducer, no checkpoint)
FoldMessagesReplace(history, update) == update

\* StateGraph(MessagesState) compiled with MemorySaver, run on one thread id:
\* every update is appended to the thread's saved messages
FoldMessages(history, update) == history \o update

\* the call sites of stream_graph in interact_with_graph
StreamSites == {"stream_goodbye", "stream_quit", "stream_help", "stream_normal"}

\* mutant: the conditional edge always picks research_pool
should_research_always(msgs) == "research_pool"

\* should_research (graph.py lines 9-19)
should_research(msgs) ==
    IF Last(msgs).tool_calls # <<>> THEN "research_pool" ELSE "end"

\* the pipeline part of the state while the graph is explored
PipeIdle ==
    /\ topics = <<>>
    /\ tr_futures = <<>>
    /\ tr_seen = {}
    /\ translated_topics = <<>>
    /\ pc = "idle"
    /\ result = "none"
    /\ fetch_futures = <<>>
    /\ fetch_seen = {}
    /\ raw_papers_per_topic = <<>>
    /\ tasks = <<>>
    /\ eval_seen = {}
    /\ evaluated = <<>>
    /\ ctx_papers = EmptyDict
    /\ translation_failed = FALSE

GraphInit == GraphIdle /\ SessionInit /\ PipeIdle /\ AuxIdle

\* stream_graph: graph.stream({"messages": [user message]}, config) on the
\* session's thread; the walk starts at START -> chatbot on the saved history
UserTurn ==
    /\ loop \in StreamSites
    /\ ~called
    /\ walk # "running"
    /\ turns < MaxTurns
    /\ Len(messages) < MaxMessages
    /\ messages' = FoldMessages(messages, <<HumanMessage>>)
    /\ node' = "chatbot"
    /\ walk' = "running"
    /\ exc' = "none"
    /\ turns' = turns + 1
    /\ called' = TRUE
    /\ turn_calls' = turn_calls + 1
    /\ UNCHANGED <<next_id, loop, user_input, intent, pvars, avars>>

\* chatbot_node, then the conditional edge should_research
ChatbotNode ==
    /\ walk = "running"
    /\ node = "chatbot"
    /\ Len(messages) < MaxMessages
    /\ \E names \in SeqsUpTo(ToolNames, MaxCalls) :
          LET calls == [k \in DOMAIN names |-> [name |-> names[k], id |-> next_id + k - 1]]
          IN  /\ messages' = FoldMessages(messages, <<AIMessage(calls)>>)
              /\ next_id' = next_id + Len(names)
    /\ node' = should_research(messages')
    /\ walk' = IF node' = "end" THEN "ended" ELSE "running"
    /\ UNCHANGED <<exc, turns, svars, pvars, avars>>

\* chat_llm_with_tools.invoke raises: the exception leaves graph.stream
ChatbotFails ==
    /\ walk = "running"
    /\ node = "chatbot"
    /\ walk' = "aborted"
    /\ exc' = "ModelInvocationError"
    /\ node' = "end"
    /\ UNCHANGED <<messages, next_id, turns, svars, pvars, avars>>

\* how each call of the loop in research_pool_node can end: a name that is
\* not in research_tools_by_name raises KeyError at line 25, tool.invoke
\* returns the observation or raises what the pipeline raises
CallOutcomes(call) ==
    IF call.name \in RegisteredTools THEN ToolOutcomes ELSE {"KeyError"}

\* what research_pool_node does with the outcomes `outs` of its calls
\* (graph.py lines 21-31): nothing catches, so the first failing call
\* leaves the node, and the walk, with its exception
PoolStep(calls, outs) ==
    LET failing == {k \in DOMAIN calls : outs[k] # "returned"}
    IN  IF failing = {}
        THEN /\ messages' = FoldMessages(messages,
                                [k \in DOMAIN calls |-> ToolMessage(calls[k], "ctx")])
             /\ node' = "chatbot"
             /\ walk' = "running"
             /\ exc' = exc
        ELSE /\ messages' = messages
             /\ node' = "end"
             /\ walk' = "aborted"
             /\ exc' = outs[CHOOSE k \in failing : \A m \in failing : k <= m]

ResearchPoolNode ==
    /\ walk = "running"
    /\ node = "research_pool"
    /\ LET calls == Last(messages).tool_calls
       IN  \E outs \in [DOMAIN calls -> ToolOutcomes \cup {"KeyError"}] :
              /\ \A k \in DOMAIN calls : outs[k] \in CallOutcomes(calls[k])
              /\ PoolStep(calls, outs)
    /\ UNCHANGED <<next_id, turns, svars, pvars, avars>>

\* KeyboardInterrupt while graph.stream runs: stream_graph catches it and
\* returns (display.py lines 207-209); the walk stops where it is
StreamInterrupted ==
    /\ walk = "running"
    /\ walk' = "aborted"
    /\ exc' = "KeyboardInterrupt"
    /\ node' = "end"
    /\ UNCHANGED <<messages, next_id, turns, svars, pvars, avars>>

\* ------------------------------------------------------------ session loop
\* `chat_intent in 'quit'` is a substring test on str
InQuit(x) == x \in {"", "q", "u", "i", "t", "qu", "ui", "it", "qui", "uit", "quit"}

\* mutant: everything but "continue" ends the session
NextAfterIntentEager(it, cmd) ==
    IF it # "continue" THEN "stream_quit"
    ELSE IF cmd = "help" THEN "stream_help"
    ELSE "stream_normal"

\* lines 246-271: which stream_graph call the turn makes
NextAfterIntent(it, cmd) ==
    IF InQuit(it) THEN "stream_quit"
    ELSE IF cmd = "help" THEN "stream_help"
    ELSE "stream_normal"

\* lines 235-240: session.prompt returns text, or raises KeyboardInterrupt
\* (caught: goodbye, break) or EOFError (not caught)
Prompt ==
    /\ loop = "prompt"
    /\ \E inp \in {"text", "help", "interrupt", "eof"} :
          /\ user_input' = inp
          /\ loop' = CASE inp = "interrupt" -> "stream_goodbye"
                       [] inp = "eof" -> "crashed"
                       [] OTHER -> "classify"
    /\ intent' = "none"
    /\ called' = FALSE
    /\ turn_calls' = 0
    /\ UNCHANGED <<gvars, pvars, avars>>

\* line 243: farewell_agent.run_sync(cmd).output.intent, outside any try
Classify ==
    /\ loop = "classify"
    /\ \/ \E it \in {"continue", "quit", "unsure"} :
             /\ intent' = it
             /\ loop' = NextAfterIntent(it, user_input)
       \/ /\ loop' = "crashed"
          /\ UNCHANGED intent
    /\ UNCHANGED <<user_input, called, turn_calls, gvars, pvars, avars>>

\* where the loop goes when stream_graph is over: the goodbye and quit sites
\* break (an exception there leaves the loop), the help and normal sites
\* catch Exception and continue
AfterStream(site, raised) ==
    IF site \in {"stream_goodbye", "stream_quit"}
    THEN (IF raised THEN "crashed" ELSE "exited")
    ELSE "prompt"

StreamReturn ==
    /\ loop \in StreamSites
    /\ called
    /\ walk \in {"ended", "aborted"}
    /\ loop' = AfterStream(loop, walk = "aborted" /\ exc # "KeyboardInterrupt")
    /\ called' = FALSE
    /\ UNCHANGED <<user_input, intent, turn_calls, gvars, pvars, avars>>

GraphNext ==
    \/ Prompt
    \/ Classify
    \/ UserTurn
    \/ ChatbotNode
    \/ ChatbotFails
    \/ ResearchPoolNode
    \/ StreamInterrupted
    \/ StreamReturn

GraphSpec == GraphInit /\ [][GraphNext]_vars

\* ------------------------------------------- the worker pools, tasks counted
\* One invocation of arxiv_research_tool with the data of the tasks erased:
\* only how many tasks of the current stage are queued, running and done.
PoolStages == {"translate", "fetch", "evaluate"}

PoolInit ==
    /\ pool_stage = "translate"
    /\ pool_n \in 0..MaxPoolTopics
    /\ pool_queued = pool_n
    /\ pool_running = 0
    /\ pool_done = 0
    /\ pool_failed = FALSE

\* an idle worker thread of the stage's executor takes a queued task
PoolStart ==
    /\ pool_stage \in PoolStages
    /\ pool_queued > 0
    /\ pool_running < PoolWidth(pool_stage, pool_n)
    /\ pool_queued' = pool_queued - 1
    /\ pool_running' = pool_running + 1
    /\ UNCHANGED <<pool_stage, pool_n, pool_done, pool_failed, pvars, gvars, svars, cvars, rvars, tvars, kvars>>

\* a running task returns or raises
PoolFinish ==
    /\ pool_stage \in PoolStages
    /\ pool_running > 0
    /\ pool_running' = pool_running - 1
    /\ pool_done' = pool_done + 1
    /\ \E failed \in BOOLEAN : pool_failed' = (pool_failed \/ failed)
    /\ UNCHANGED <<pool_stage, pool_n, pool_queued, pvars, gvars, svars, cvars, rvars, tvars, kvars>>

\* the with-block of the stage exits when all its tasks are done; a failed
\* translation raises, ThreadPoolExecutor(max_workers=0) raises, the papers
\* of N topics are at most MaxResults each
PoolNextStage ==
    /\ pool_stage \in PoolStages
    /\ pool_queued = 0
    /\ pool_running = 0
    /\ \/ /\ pool_stage = "translate"
          /\ IF pool_failed \/ PoolWidth("fetch", pool_n) <= 0
             THEN pool_stage' = "raised" /\ pool_queued' = 0
             ELSE pool_stage' = "fetch" /\ pool_queued' = pool_n
       \/ /\ pool_stage = "fetch"
          /\ pool_stage' = "evaluate"
          /\ \E m \in 0..Min(MaxResults * pool_n, MaxPoolTasks) : pool_queued' = m
       \/ /\ pool_stage = "evaluate"
          /\ pool_stage' = "returned"
          /\ pool_queued' = 0
    /\ pool_done' = 0
    /\ pool_failed' = FALSE
    /\ UNCHANGED <<pool_n, pool_running, pvars, gvars, svars, cvars, rvars, tvars, kvars>>

PoolNext ==
    \/ PoolStart
    \/ PoolFinish
    \/ PoolNextStage

PoolSpecInit ==
    /\ PoolInit /\ CacheInit /\ RescaleIdle /\ PrepareIdle /\ WalkIdle
    /\ PipeIdle /\ GraphIdle /\ SessionInit

PoolSpec == PoolSpecInit /\ [][PoolNext]_vars

\* ------------------------------------------------------ the embedding cache
\* functools.lru_cache(maxsize=...) around get_embedding: a hit returns the
\* stored value and makes the key the most recently used; a miss calls the
\* function with no lock held and stores the result afterwards.
Remove(s, k) == SelectSeq(s, LAMBDA x : x # k)

\* mutant: the result of a miss is not stored
StoreNothing(c, k) == c

\* the store after a miss: nothing if another call stored the key meanwhile,
\* else the least recently used entry makes room when the cache is full
Store(c, k) ==
    IF k \in Range(c) THEN c
    ELSE IF Len(c) >= CacheSlots THEN Append(Tail(c), k)
    ELSE Append(c, k)

RECURSIVE FetchesUpTo(_, _)
FetchesUpTo(f, k) == IF k = 0 THEN 0 ELSE f[k] + FetchesUpTo(f, k - 1)

\* the API calls made so far, for all keys
TotalFetches == FetchesUpTo(fetches, MaxKeys)

LookupHit(w, k) ==
    /\ lookup[w] = 0
    /\ k \in Range(cache)
    /\ cache' = Append(Remove(cache, k), k)
    /\ UNCHANGED <<lookup, fetches, raced, evicted, fetch_failed, wvars, rvars, pvars, gvars, svars, tvars, kvars>>

\* client.embeddings.create is called for the key
LookupMiss(w, k) ==
    /\ lookup[w] = 0
    /\ k \notin Range(cache)
    /\ TotalFetches < MaxFetches
    /\ lookup' = [lookup EXCEPT ![w] = k]
    /\ fetches' = [fetches EXCEPT ![k] = @ + 1]
    /\ raced' = IF \E v \in Workers : lookup[v] = k THEN raced \cup {k} ELSE raced
    /\ UNCHANGED <<cache, evicted, fetch_failed, wvars, rvars, pvars, gvars, svars, tvars, kvars>>

\* the API call returns and the embedding is stored, or it raises and
\* nothing is stored
FetchDone(w) ==
    /\ lookup[w] # 0
    /\ \/ /\ cache' = Store(cache, lookup[w])
          /\ evicted' = evicted \cup (Range(cache) \ Range(cache'))
          /\ UNCHANGED fetch_failed
       \/ /\ fetch_failed' = fetch_failed \cup {lookup[w]}
          /\ UNCHANGED <<cache, evicted>>
    /\ lookup' = [lookup EXCEPT ![w] = 0]
    /\ UNCHANGED <<fetches, raced, wvars, rvars, pvars, gvars, svars, tvars, kvars>>

CacheNext ==
    \/ \E w \in Workers, k \in Keys : LookupHit(w, k)
    \/ \E w \in Workers, k \in Keys : LookupMiss(w, k)
    \/ \E w \in Workers : FetchDone(w)

CacheSpecInit ==
    /\ CacheInit /\ PoolIdle /\ RescaleIdle /\ PrepareIdle /\ WalkIdle
    /\ PipeIdle /\ GraphIdle /\ SessionInit

CacheSpec == CacheSpecInit /\ [][CacheNext]_vars

\* ------------------------------------------------------ from_scale_to_scale
\* Numbers are exact fractions <<numerator, denominator>> in lowest terms with
\* a positive denominator.
Abs(x) == IF x < 0 THEN -x ELSE x

RECURSIVE GCD(_, _)
GCD(a, b) == IF b = 0 THEN a ELSE GCD(b, a % b)

Frac(n, d) ==
    LET g == GCD(Abs(n), Abs(d))
        sg == IF d < 0 THEN -1 ELSE 1
    IN  <<(sg * n) \div g, (sg * d) \div g>>

FromInt(i) == <<i, 1>>
FracAdd(a, b) == Frac(a[1] * b[2] + b[1] * a[2], a[2] * b[2])
FracSub(a, b) == Frac(a[1] * b[2] - b[1] * a[2], a[2] * b[2])
FracMul(a, b) == Frac(a[1] * b[1], a[2] * b[2])
FracDiv(a, b) == Frac(a[1] * b[2], a[2] * b[1])
FracLeq(a, b) == a[1] * b[2] <= b[1] * a[2]

ValueError == [st |-> "error", val |-> <<>>]

\* mutant: the r_scale check is left out
scales_rejected_no_r_check(value, l_scale, r_scale) ==
    \/ Len(l_scale) # 2 \/ Len(r_scale) # 2
    \/ l_scale[1] = l_scale[2]
    \/ ~(FracLeq(FromInt(l_scale[1]), value) /\ FracLeq(value, FromInt(l_scale[2])))

\* lines 79-90: the four raise statements
scales_rejected(value, l_scale, r_scale) ==
    \/ Len(l_scale) # 2 \/ Len(r_scale) # 2
    \/ l_scale[1] = l_scale[2]
    \/ r_scale[1] = r_scale[2]
    \/ ~(FracLeq(FromInt(l_scale[1]), value) /\ FracLeq(value, FromInt(l_scale[2])))

\* mutant: the offset of the target scale is not added
scaled_value_no_offset(value, l_min, l_max, r_min, r_max) ==
    FracDiv(FracMul(FracSub(value, FromInt(l_min)), FromInt(r_max - r_min)),
            FromInt(l_max - l_min))

\* line 93: ((value - l_min) * (r_max - r_min)) / (l_max - l_min) + r_min
scaled_value(value, l_min, l_max, r_min, r_max) ==
    FracAdd(FracDiv(FracMul(FracSub(value, FromInt(l_min)), FromInt(r_max - r_min)),
                    FromInt(l_max - l_min)),
            FromInt(r_min))

from_scale_to_scale(value, l_scale, r_scale) ==
    IF scales_rejected(value, l_scale, r_scale) THEN ValueError
    ELSE [st |-> "ok",
          val |-> scaled_value(value, l_scale[1], l_scale[2], r_scale[1], r_scale[2])]

ScaleInts == (0 - MaxScale)..MaxScale

\* scales as passed by a caller: lists of one or two integers
Scales == {sc \in SeqsUpTo(ScaleInts, 2) : Len(sc) >= 1}

\* the values: every fraction n/d of the range, one step beyond the widest scale
Values == {Frac(n, d) : n \in (0 - (MaxScale + 1) * MaxDen)..((MaxScale + 1) * MaxDen),
                       d \in 1..MaxDen}

RescaleInit ==
    /\ rs_value \in Values
    /\ rs_l \in Scales
    /\ rs_r \in Scales
    /\ rs_out = NoCall
    /\ rs_back = NoCall
    /\ rs_scaled = NoCall
    /\ rs_eval = NoCall

RescaleCall ==
    /\ rs_out.st = "none"
    /\ rs_out' = from_scale_to_scale(rs_value, rs_l, rs_r)
    /\ UNCHANGED <<rs_value, rs_l, rs_r, rs_back, rs_scaled, rs_eval, wvars, cvars, pvars, gvars, svars, tvars, kvars>>

\* the result is scaled back from r_scale to l_scale
RescaleBack ==
    /\ rs_out.st = "ok"
    /\ rs_back.st = "none"
    /\ rs_back' = from_scale_to_scale(rs_out.val, rs_r, rs_l)
    /\ UNCHANGED <<rs_value, rs_l, rs_r, rs_out, rs_scaled, rs_eval, wvars, cvars, pvars, gvars, svars, tvars, kvars>>

\* mutant: the similarity is taken to be a value of [0, 1] already
get_scaled_similarity_unit(similarity) ==
    from_scale_to_scale(similarity, <<0, 1>>, <<0, 1>>)

\* line 115: from_scale_to_scale(similarity, [-1, 1], [0, 1])
get_scaled_similarity(similarity) ==
    from_scale_to_scale(similarity, <<-1, 1>>, <<0, 1>>)

\* PaperEvaluation(score=...): score is Field(ge=0.0, le=1.0), a score out of
\* range is a validation error
PaperEvaluation(score) ==
    IF FracLeq(FromInt(0), score) /\ FracLeq(score, FromInt(1))
    THEN [st |-> "ok", val |-> score]
    ELSE ValueError

\* explain_paper_relevance with `similarity` the cosine of the two embeddings:
\* the scaled similarity, then the rationale completion (which may raise),
\* then the PaperEvaluation
ExplainPaperRelevance ==
    /\ rs_scaled.st = "none"
    /\ rs_scaled' = get_scaled_similarity(rs_value)
    /\ \E completion_ok \in BOOLEAN :
          rs_eval' = IF rs_scaled'.st = "ok" /\ completion_ok
                     THEN PaperEvaluation(rs_scaled'.val)
                     ELSE ValueError
    /\ UNCHANGED <<rs_value, rs_l, rs_r, rs_out, rs_back,
                   wvars, cvars, pvars, gvars, svars, tvars, kvars>>

RescaleNext ==
    \/ RescaleCall
    \/ RescaleBack
    \/ ExplainPaperRelevance

RescaleSpecInit ==
    /\ RescaleInit /\ PoolIdle /\ CacheInit /\ PrepareIdle /\ WalkIdle
    /\ PipeIdle /\ GraphIdle /\ SessionInit

RescaleSpec == RescaleSpecInit /\ [][RescaleNext]_vars

\* ------------------------------------------------ prepare_translation_input
Languages == {"en", "pt", "de"}

\* detect(text) returns a language code or raises LangDetectException
DetectOutcomes == Languages \cup {"LangDetectException"}

\* TranslationInput.force_direction: Literal["to_en", "from_en", "auto"]
Directions == {"to_en", "from_en", "auto"}

\* mutant: the two branches of the auto case are exchanged
EffectiveDirectionSwapped(detected, force_direction) ==
    IF force_direction = "auto"
    THEN (IF detected = "en" THEN "to_en" ELSE "from_en")
    ELSE force_direction

\* lines 48-54: the direction written into the TranslationInput
EffectiveDirection(detected, force_direction) ==
    IF force_direction = "auto"
    THEN (IF detected = "en" THEN "from_en" ELSE "to_en")
    ELSE force_direction

InputError == [st |-> "error", text |-> "", preferred_lang |-> "", force_direction |-> ""]

\* prepare_translation_input(text, preferred_lang, force_direction), with
\* `detected` the outcome of detect(text): detect is called first, whatever
\* the direction, and TranslationInput(...) validates the direction
prepare_translation_input(text, detected, preferred_lang, force_direction) ==
    IF detected \notin Languages THEN InputError
    ELSE IF EffectiveDirection(detected, force_direction) \notin Directions THEN InputError
    ELSE [st |-> "ok", text |-> text, preferred_lang |-> preferred_lang,
          force_direction |-> EffectiveDirection(detected, force_direction)]

PrepareInit ==
    /\ ti_text \in Strings
    /\ ti_detected \in DetectOutcomes
    /\ ti_pref \in {"none", "pt"}
    /\ ti_force \in Directions \cup {"both"}
    /\ ti_out = NoInput

\* a direct call with the drawn arguments
PrepareCall ==
    /\ ti_out.st = "none"
    /\ ti_out' = prepare_translation_input(ti_text, ti_detected, ti_pref, ti_force)
    /\ UNCHANGED <<ti_text, ti_detected, ti_pref, ti_force,
                   wvars, cvars, rvars, kvars, pvars, gvars, svars>>

\* translate_sync(text) as the pipeline submits it: preferred_lang="en",
\* force_direction="to_en" (agents.py lines 93-94)
TranslateSyncCall ==
    /\ ti_out.st = "none"
    /\ ti_pref' = "en"
    /\ ti_force' = "to_en"
    /\ ti_out' = prepare_translation_input(ti_text, ti_detected, ti_pref', ti_force')
    /\ UNCHANGED <<ti_text, ti_detected,
                   wvars, cvars, rvars, kvars, pvars, gvars, svars>>

PrepareNext ==
    \/ PrepareCall
    \/ TranslateSyncCall

PrepareSpecInit ==
    /\ PrepareInit /\ PoolIdle /\ CacheInit /\ RescaleIdle /\ WalkIdle
    /\ PipeIdle /\ GraphIdle /\ SessionInit

PrepareSpec == PrepareSpecInit /\ [][PrepareNext]_vars

\* ---------------------------------------------- one walk, executions counted
\* One graph.stream call on the compiled graph with only the last message of
\* the state kept, so that a walk can be as long as the runtime lets it be:
\* graph.stream stops a walk that needs more than RecursionLimit node
\* executions with GraphRecursionError.
EntryNode == "chatbot"                \* g.add_edge(START, "chatbot")

\* mutant: the walk ends after the tools
AfterResearchPoolEnd == "end"

AfterResearchPool == "chatbot"        \* g.add_edge("research_pool", "chatbot")

WalkRunning == w_node \in {"chatbot", "research_pool"}

WalkInit ==
    /\ w_node = EntryNode
    /\ w_prev = "start"
    /\ w_steps = 0
    /\ w_last = HumanMessage
    /\ w_exc = "none"

\* chatbot_node returns a message, then the conditional edge should_research
WalkChatbot ==
    /\ w_node = "chatbot"
    /\ w_steps < RecursionLimit
    /\ \E names \in SeqsUpTo(ToolNames, MaxCalls) :
          w_last' = AIMessage([k \in DOMAIN names |-> [name |-> names[k], id |-> k]])
    /\ w_node' = should_research(<<w_last'>>)
    /\ w_prev' = "chatbot"
    /\ w_steps' = w_steps + 1
    /\ UNCHANGED <<w_exc, wvars, cvars, rvars, tvars, pvars, gvars, svars>>

\* chat_llm_with_tools.invoke raises
WalkChatbotFails ==
    /\ w_node = "chatbot"
    /\ w_steps < RecursionLimit
    /\ w_node' = "error"
    /\ w_exc' = "ModelInvocationError"
    /\ w_prev' = "chatbot"
    /\ w_steps' = w_steps + 1
    /\ UNCHANGED <<w_last, wvars, cvars, rvars, tvars, pvars, gvars, svars>>

\* research_pool_node: every call returns and the fixed edge is followed, or
\* the first failing call's exception leaves the walk
WalkResearchPool ==
    /\ w_node = "research_pool"
    /\ w_steps < RecursionLimit
    /\ LET calls == w_last.tool_calls
       IN  \E outs \in [DOMAIN calls -> ToolOutcomes \cup {"KeyError"}] :
              /\ \A k \in DOMAIN calls : outs[k] \in CallOutcomes(calls[k])
              /\ LET failing == {k \in DOMAIN calls : outs[k] # "returned"}
                 IN  IF failing = {}
                     THEN /\ w_last' = ToolMessage(Last(calls), "ctx")
                          /\ w_node' = AfterResearchPool
                          /\ w_exc' = w_exc
                     ELSE /\ w_last' = w_last
                          /\ w_node' = "error"
                          /\ w_exc' = outs[CHOOSE k \in failing : \A m \in failing : k <= m]
    /\ w_prev' = "research_pool"
    /\ w_steps' = w_steps + 1
    /\ UNCHANGED <<wvars, cvars, rvars, tvars, pvars, gvars, svars>>

\* the walk needs another node execution after RecursionLimit of them
WalkOutOfSteps ==
    /\ WalkRunning
    /\ w_steps >= RecursionLimit
    /\ w_node' = "error"
    /\ w_exc' = "GraphRecursionError"
    /\ UNCHANGED <<w_prev, w_steps, w_last, wvars, cvars, rvars, tvars, pvars, gvars, svars>>

\* KeyboardInterrupt while graph.stream runs (display.py lines 207-209)
WalkInterrupted ==
    /\ WalkRunning
    /\ w_node' = "error"
    /\ w_exc' = "KeyboardInterrupt"
    /\ UNCHANGED <<w_prev, w_steps, w_last, wvars, cvars, rvars, tvars, pvars, gvars, svars>>

WalkNext ==
    \/ WalkChatbot
    \/ WalkChatbotFails
    \/ WalkResearchPool
    \/ WalkOutOfSteps
    \/ WalkInterrupted

WalkSpecInit ==
    /\ WalkInit /\ PoolIdle /\ CacheInit /\ RescaleIdle /\ PrepareIdle
    /\ PipeIdle /\ GraphIdle /\ SessionInit

\* graph.stream runs the scheduled node as soon as the previous one is done,
\* and a node's call returns or raises
WalkSpec ==
    /\ WalkSpecInit
    /\ [][WalkNext]_vars
    /\ WF_vars(WalkChatbot \/ WalkChatbotFails)
    /\ WF_vars(WalkResearchPool)
    /\ WF_vars(WalkOutOfSteps)

\* ================================================================= claims
Returned == pc = "returned" /\ result = "returned"

\* every paper some retrieval task returned, the papers whose evaluation
\* raised, and the papers of the returned mapping
RetrievedPapers ==
    UNION {Range(fetch_futures[j].val) :
              j \in {m \in DOMAIN fetch_futures : fetch_futures[m].st = "ok"}}
FailedEvaluations == {tasks[k].paper : k \in {m \in DOMAIN tasks : tasks[m].st = "failed"}}
FailedRetrievals ==
    {fetch_futures[j].topic : j \in {m \in DOMAIN fetch_futures : fetch_futures[m].st = "failed"}}
ReturnedPapers ==
    UNION {{MakePaper(ctx_papers[t][i].topic, ctx_papers[t][i].url) :
               i \in DOMAIN ctx_papers[t]} : t \in DOMAIN ctx_papers}
RECURSIVE CountEntries(_, _)
CountEntries(d, keys) ==
    IF keys = {} THEN 0
    ELSE LET t == CHOOSE x \in keys : TRUE
         IN  Len(d[t]) + CountEntries(d, keys \ {t})
ReturnedCount == CountEntries(ctx_papers, DOMAIN ctx_papers)

ToolExceptions == {"TranslationError", "ValueError", "KeyError"}

\* C1: a tool call that fails inside research_pool_node becomes a tool-result
\* message with error content, the walk goes on and the next node is chatbot.
C1_ToolFailureBecomesMessage ==
    exc \in ToolExceptions =>
        /\ walk = "running"
        /\ node = "chatbot"
        /\ Last(messages).type = "tool"
        /\ Last(messages).content = "error"

\* C2: once a translation task of the invocation has failed, the invocation
\* never gets past stage 1, never returns a ResearchContext, and if it has
\* ended it ended with TranslationError.
C2_TranslationFailureIsFatal ==
    translation_failed =>
        /\ pc \in {"translate", "tr_raise", "raised"}
        /\ result # "returned"
        /\ (pc = "raised" => result = "TranslationError")

\* C2 witness: a batch of two translations, one succeeded and one failed,
\* has ended with TranslationError.
C2_Witness ==
    /\ result = "TranslationError"
    /\ \E i, k \in DOMAIN tr_futures :
          tr_futures[i].st = "ok" /\ tr_futures[k].st = "failed"

\* C3: for every topic T whose retrieval task failed the pipeline returns
\* (does not raise) and papers[T] is present and equal to [].
C3_FailedRetrievalGivesEmptyEntry ==
    (pc \in {"returned", "raised"} /\ FailedRetrievals # {}) =>
        /\ Returned
        /\ \A t \in FailedRetrievals : t \in DOMAIN ctx_papers /\ ctx_papers[t] = <<>>

\* C4: when every translation succeeds the pipeline returns, and the returned
\* mapping holds exactly the retrieved papers whose evaluation did not fail
\* (as many entries as retrieved papers minus failed ones).
C4_ExactlyTheSurvivingPapers ==
    (pc \in {"returned", "raised"} /\ ~translation_failed) =>
        /\ Returned
        /\ ReturnedPapers = RetrievedPapers \ FailedEvaluations
        /\ ReturnedCount = Cardinality(RetrievedPapers \ FailedEvaluations)

\* C5: in a returned ResearchContext every topic's sequence is ordered by
\* score, non-increasing.
C5_SortedByScoreDescending ==
    Returned =>
        \A t \in DOMAIN ctx_papers :
            \A i, j \in DOMAIN ctx_papers[t] :
                i < j => ctx_papers[t][i].score >= ctx_papers[t][j].score

\* C5 witness: a returned topic holds two papers of different scores that the
\* evaluation loop had collected lowest first.
C5_Witness ==
    /\ Returned
    /\ \E i, j \in DOMAIN evaluated :
          /\ i < j
          /\ evaluated[i].topic = evaluated[j].topic
          /\ evaluated[i].score < evaluated[j].score

\* C6: in a returned ResearchContext two papers of one topic with equal scores
\* stand in the order in which the index returned them (urls of one retrieval
\* are numbered in retrieval order).
C6_TiesInRetrievalOrder ==
    Returned =>
        \A t \in DOMAIN ctx_papers :
            \A i, j \in DOMAIN ctx_papers[t] :
                (i < j /\ ctx_papers[t][i].score = ctx_papers[t][j].score)
                    => ctx_papers[t][i].url < ctx_papers[t][j].url

\* C7: every EvaluatedPaper stored under key T of the returned mapping has
\* topic T.
C7_KeyIsPaperTopic ==
    Returned =>
        \A t \in DOMAIN ctx_papers :
            \A i \in DOMAIN ctx_papers[t] : ctx_papers[t][i].topic = t

\* C7 witness: a returned mapping with two keys, each holding a paper.
C7_Witness ==
    /\ Returned
    /\ Cardinality(DOMAIN ctx_papers) = 2
    /\ \A t \in DOMAIN ctx_papers : ctx_papers[t] # <<>>

\* C8: every key of the returned papers mapping is one of the returned
\* (translated) research_topics.topics.
C8_KeysAreTranslatedTopics ==
    Returned => DOMAIN ctx_papers \subseteq Range(topics)

\* C8 witness: a returned mapping that has a key, and a translated topic that
\* is no key of it.
C8_Witness ==
    /\ Returned
    /\ DOMAIN ctx_papers # {}
    /\ Range(topics) \ DOMAIN ctx_papers # {}

\* a step that executes the chatbot node (the node appends its message)
ChatExecuted == walk = "running" /\ node = "chatbot" /\ Len(messages') = Len(messages) + 1

\* C9: after every execution of the chatbot node the next node is
\* research_pool iff the last message carries a tool call; otherwise the walk
\* is at the terminal state.
C9_BranchOnToolCalls ==
    [][ChatExecuted =>
          /\ (node' = "research_pool") <=> (Last(messages').tool_calls # <<>>)
          /\ (node' = "end" /\ walk' = "ended") <=> (Last(messages').tool_calls = <<>>)
          /\ node' \in {"research_pool", "end"}]_vars

\* C9 witness: one walk went through research_pool (a tool result is in the
\* history) and a walk has ended on a chat message without tool calls.
C9_Witness ==
    /\ walk = "ended"
    /\ Last(messages).type = "ai"
    /\ Last(messages).tool_calls = <<>>
    /\ \E i \in DOMAIN messages : messages[i].type = "tool"

\* C10: every execution of research_pool_node on a last message with n tool
\* calls appends exactly n tool-result messages, in the order of the calls,
\* each with the id of its call.
C10_OneResultPerCall ==
    [][(walk = "running" /\ node = "research_pool") =>
          LET calls == Last(messages).tool_calls
          IN  /\ Len(messages') = Len(messages) + Len(calls)
              /\ SubSeq(messages', 1, Len(messages)) = messages
              /\ \A k \in DOMAIN calls :
                    /\ messages'[Len(messages) + k].type = "tool"
                    /\ messages'[Len(messages) + k].tool_call_id = calls[k].id]_vars

\* C11: within one session the conversation history is append-only: every
\* step leaves the history it found as a prefix of the history it produces,
\* so the history at any earlier point is a prefix of the history at every
\* later point and no message is removed or truncated.
C11_HistoryAppendOnly ==
    [][/\ Len(messages') >= Len(messages)
       /\ SubSeq(messages', 1, Len(messages)) = messages]_vars

\* C11 witness: a second user turn has been streamed on top of the messages
\* of the first one (its question, the chat reply and a tool result).
C11_Witness ==
    /\ turns = 2
    /\ messages[1].type = "human"
    /\ Last(messages).type = "human"
    /\ \E i \in DOMAIN messages : messages[i].type = "tool"

\* C12: no error raised inside a turn terminates the session loop: the loop
\* is left only after a quit intent or on end of input (EOF or an interrupt at
\* the prompt); after any other failure it prompts again.
C12_ErrorsNeverEndSession ==
    loop \in {"exited", "crashed"} =>
        (intent = "quit" \/ user_input \in {"eof", "interrupt"})

\* C13: a turn classified as quit makes exactly one more graph invocation and
\* then leaves the loop without prompting again; a turn classified as
\* continue or unsure does not leave the loop.
C13_QuitStreamsOnceThenStops ==
    /\ intent = "quit" =>
          /\ loop \in {"stream_quit", "exited", "crashed"}
          /\ turn_calls <= 1
          /\ loop \in {"exited", "crashed"} => turn_calls = 1
    /\ intent \in {"continue", "unsure"} =>
          loop \in {"stream_help", "stream_normal", "prompt"}

\* C13 witness: after an ordinary turn, a turn classified as quit streamed
\* the graph once and the loop was left.
C13_Witness ==
    /\ intent = "quit"
    /\ loop = "exited"
    /\ turn_calls = 1
    /\ turns = 2

\* C14: the stages are separated by full barriers: no retrieval task has
\* started while a translation task of the invocation is still queued or
\* running, and no evaluation task has started while a retrieval task is still
\* queued or running.
C14_StageBarriers ==
    /\ (\E j \in DOMAIN fetch_futures : fetch_futures[j].st # "queued") =>
          (\A i \in DOMAIN tr_futures : Done(tr_futures[i]))
    /\ (\E k \in DOMAIN tasks : tasks[k].st # "queued") =>
          /\ \A j \in DOMAIN fetch_futures : Done(fetch_futures[j])
          /\ \A i \in DOMAIN tr_futures : Done(tr_futures[i])

\* C14 witness: an evaluation task is running after two translations and two
\* retrievals (one of them failed) have finished.
C14_Witness ==
    /\ Len(tr_futures) = 2
    /\ Len(fetch_futures) = 2
    /\ \E j \in DOMAIN fetch_futures : fetch_futures[j].st = "failed"
    /\ \E k \in DOMAIN tasks : tasks[k].st = "running"

\* C15: at every moment of an invocation with N topics at most 4 translation
\* tasks, at most min(8, N) retrieval tasks and at most 8 evaluation tasks are
\* running.
C15_BoundedConcurrency ==
    /\ pool_stage = "translate" => pool_running <= 4
    /\ pool_stage = "fetch" => (pool_running <= 8 /\ pool_running <= pool_n)
    /\ pool_stage = "evaluate" => pool_running <= 8

\* C15 witness: four translations are running while a fifth topic waits.
C15_Witness ==
    /\ pool_stage = "translate"
    /\ pool_running = 4
    /\ pool_queued > 0

\* C16: an invocation in which every translation task succeeds, for every
\* topic list including the empty one, does not raise: it ends by returning
\* the context whichever retrieval and evaluation tasks fail.
C16_ReturnsWhenTranslationsSucceed ==
    pc = "raised" => translation_failed

\* C18: every paper returned by a retrieval task is submitted for evaluation
\* exactly once, also when the translated topic list repeats a topic.
C18_EveryPaperSubmittedOnce ==
    pc \in {"evaluate", "returned"} =>
        \A p \in RetrievedPapers :
            Cardinality({k \in DOMAIN tasks : tasks[k].paper = p}) = 1

\* C17: get_embedding never calls the embedding API twice for the same
\* (text, model) pair, whatever the sequence of lookups (concurrent lookups of
\* one key and more distinct keys than the cache holds included).
C17_NeverFetchedTwice ==
    \A k \in Keys : fetches[k] <= 1

\* C17 as amended: a pair whose API call succeeded is not fetched again as
\* long as the cache has not dropped it and no lookup of it missed while
\* another call for it was in flight.
C17_FetchedOnceWhileCached ==
    \A k \in Keys :
        (k \notin evicted /\ k \notin raced /\ k \notin fetch_failed) => fetches[k] <= 1

\* C17 witness: a key was fetched once and then served from the cache (it is
\* the most recently used entry although another key was stored after it), while
\* the other workers' traffic caused an eviction.
C17_Witness ==
    /\ \E k \in Keys :
          /\ fetches[k] = 1
          /\ k \notin evicted
          /\ Len(cache) = CacheSlots
          /\ cache[Len(cache)] = k
          /\ fetches[cache[1]] = 1
          /\ \A w \in Workers : lookup[w] = 0
    /\ evicted # {}

\* the scales are pairs, and the value compared with the ends of l_scale
PairScales == Len(rs_l) = 2 /\ Len(rs_r) = 2
ValueWithin(v, sc) == sc[1] * v[2] <= v[1] /\ v[1] <= sc[2] * v[2]

\* C19: from_scale_to_scale(value, [l_min, l_max], [r_min, r_max]) fails with
\* an error and returns no value whenever l_min = l_max, or r_min = r_max, or
\* value is outside [l_min, l_max]; for all other inputs it returns a value.
C19_FailsExactlyOnBadInput ==
    (PairScales /\ rs_out.st # "none") =>
        IF rs_l[1] = rs_l[2] \/ rs_r[1] = rs_r[2] \/ ~ValueWithin(rs_value, rs_l)
        THEN rs_out.st = "error" /\ rs_out.val = <<>>
        ELSE rs_out.st = "ok" /\ Len(rs_out.val) = 2

\* C19 witness: the call failed only because the value, a proper fraction,
\* lies above l_max of a good pair of scales.
C19_Witness ==
    /\ PairScales
    /\ rs_l[1] < rs_l[2]
    /\ rs_r[1] # rs_r[2]
    /\ rs_value[2] > 1
    /\ rs_value[1] > rs_l[2] * rs_value[2]
    /\ rs_out.st = "error"

\* C20: for intervals A and B with min < max and x within A, the inner call
\* rescale(x, A, B) returns a value within B, the outer call
\* rescale(., B, A) does not fail, and the round trip returns x.
C20_RoundTrip ==
    (/\ PairScales
     /\ rs_l[1] < rs_l[2]
     /\ rs_r[1] < rs_r[2]
     /\ ValueWithin(rs_value, rs_l)) =>
        /\ rs_out.st # "none" => (rs_out.st = "ok" /\ ValueWithin(rs_out.val, rs_r))
        /\ rs_back.st # "none" => (rs_back.st = "ok" /\ rs_back.val = rs_value)

\* C20 witness: a proper fraction strictly inside A went to a different
\* value of B and came back.
C20_Witness ==
    /\ PairScales
    /\ rs_l[1] < rs_l[2]
    /\ rs_r[1] < rs_r[2]
    /\ rs_value[2] > 1
    /\ rs_out.st = "ok"
    /\ rs_out.val # rs_value
    /\ rs_out.val[2] > 2
    /\ rs_back.st = "ok"
    /\ rs_back.val = rs_value

\* C21: with direction auto the effective direction is from_en exactly when
\* the detected language is English and to_en otherwise; with an explicit
\* to_en or from_en it is the requested direction whatever was detected.
C21_EffectiveDirection ==
    (ti_out.st # "none" /\ ti_detected \in Languages /\ ti_force \in Directions) =>
        /\ ti_out.st = "ok"
        /\ ti_force = "auto" =>
              /\ (ti_out.force_direction = "from_en") <=> (ti_detected = "en")
              /\ (ti_out.force_direction = "to_en") <=> (ti_detected # "en")
        /\ ti_force \in {"to_en", "from_en"} => ti_out.force_direction = ti_force

\* C21 witness: a text detected as Portuguese was prepared with direction
\* auto and goes to English.
C21_Witness ==
    /\ ti_force = "auto"
    /\ ti_detected = "pt"
    /\ ti_out.st = "ok"
    /\ ti_out.force_direction = "to_en"

\* C22: research_topics.topics never holds more than 5 topics: no
\* translation, retrieval or evaluation task runs for a topic list longer
\* than 5.
C22_AtMostFiveTopics ==
    (pool_stage \in PoolStages /\ pool_running > 0) => pool_n <= 5

\* the strings of a list as a multiset
BagOf(seq) == [x \in Range(seq) |-> Cardinality({i \in DOMAIN seq : seq[i] = x})]

\* C23: when all translations succeed, line 120 replaces
\* research_topics.topics by a list as long as the input whose elements are,
\* as a multiset, the translations of the input topics, for every completion
\* order and with duplicate input topics.
C23_TopicsArePermutationOfTranslations ==
    [][(pc = "translate" /\ pc' \in {"fetch", "raised"}) =>
          /\ Len(topics') = Len(topics)
          /\ Len(topics') = Len(tr_futures)
          /\ BagOf(topics') = BagOf([i \in DOMAIN tr_futures |-> tr_futures[i].val])]_vars

\* C23 witness: two topics with the same translation have been written back,
\* both occurrences kept, and retrieval is under way.
C23_Witness ==
    /\ pc = "fetch"
    /\ Len(topics) = 2
    /\ topics[1] = topics[2]
    /\ Len(tr_futures) = 2
    /\ ~translation_failed

\* C24: when the invocation raises TranslationError the caller's
\* research_topics.topics is still the untranslated input list and no
\* retrieval or evaluation task was started.
C24_TranslationErrorLeavesTopics ==
    (pc = "raised" /\ result = "TranslationError") =>
        /\ topics = [i \in DOMAIN tr_futures |-> tr_futures[i].text]
        /\ fetch_futures = <<>>
        /\ tasks = <<>>
        /\ raw_papers_per_topic = <<>>

\* C24 witness: of two topics one translation was collected, the other
\* failed, and the TranslationError has left the tool.
C24_Witness ==
    /\ pc = "raised"
    /\ result = "TranslationError"
    /\ Len(topics) = 2
    /\ Len(translated_topics) = 1
    /\ translated_topics[1] # topics[1]
    /\ translated_topics[1] # topics[2]

\* C25: at the start of every chat-node execution every tool call of an
\* earlier assistant message has exactly one tool-result message with its
\* tool_call_id later in the history, also after turns whose walk was aborted.
C25_EveryToolCallAnswered ==
    (walk = "running" /\ node = "chatbot") =>
        \A i \in DOMAIN messages :
            \A c \in DOMAIN messages[i].tool_calls :
                Cardinality({j \in DOMAIN messages :
                                /\ j > i
                                /\ messages[j].type = "tool"
                                /\ messages[j].tool_call_id = messages[i].tool_calls[c].id}) = 1

\* C27: for every cosine similarity sim of [-1, 1] get_scaled_similarity
\* returns exactly (sim + 1) / 2, a value of [0, 1], so every PaperEvaluation
\* built has its score within [0, 1]; a similarity outside [-1, 1] gives an
\* error and no PaperEvaluation.
C27_ScaledSimilarity ==
    rs_scaled.st # "none" =>
        IF ValueWithin(rs_value, <<-1, 1>>)
        THEN /\ rs_scaled.st = "ok"
             /\ rs_scaled.val = Frac(rs_value[1] + rs_value[2], 2 * rs_value[2])
             /\ ValueWithin(rs_scaled.val, <<0, 1>>)
             /\ rs_eval.st = "ok" =>
                   (rs_eval.val = rs_scaled.val /\ ValueWithin(rs_eval.val, <<0, 1>>))
        ELSE rs_scaled.st = "error" /\ rs_eval.st = "error"

\* C27 witness: the similarity -1/2 gave a PaperEvaluation with score 1/4.
C27_Witness ==
    /\ rs_value = <<-1, 2>>
    /\ rs_scaled.st = "ok"
    /\ rs_eval.st = "ok"
    /\ rs_eval.val = <<1, 4>>

\* C26: a walk begins in chat, strictly alternates chat and tool invocation,
\* ends only directly after a chat execution, and eventually stops: in the
\* terminal state as soon as the chat model emits a message with no tool
\* calls, and short of it only with an exception (a tool or the model raised,
\* the user interrupted, or the walk ran out of steps before such a message).
C26_WalkAlternatesAndEnds ==
    /\ [](w_prev = "start" => w_node \in {"chatbot", "error"})
    /\ [][w_steps' = w_steps + 1 =>
            /\ w_prev' = w_node
            /\ w_prev' # w_prev
            /\ w_prev = "start" => w_prev' = "chatbot"
            /\ w_node' \in {"end", "error"} \/ w_node' # w_node]_vars
    /\ [][(w_node' = "end" /\ w_node # "end") =>
            (w_node = "chatbot" /\ w_prev' = "chatbot")]_vars
    /\ [][(w_node = "chatbot" /\ w_steps' = w_steps + 1 /\ w_exc' = "none"
               /\ w_last'.tool_calls = <<>>) => w_node' = "end"]_vars
    /\ [](w_node = "error" <=> w_exc # "none")
    /\ WalkRunning ~> (w_node = "end" \/ w_exc # "none")

\* C26 witness: chat, tool invocation, chat, chat model done: the walk is in
\* the terminal state after three node executions.
C26_Witness ==
    /\ w_node = "end"
    /\ w_steps = 3
    /\ w_prev = "chatbot"
    /\ w_last.type = "ai"
    /\ w_last.tool_calls = <<>>

====
